---- MODULE Spec2Model ----
(***************************************************************************)
(* A model of the wdog watchdog (package wdog): the WDog engine, its two   *)
(* background loops (monitorTolerance, listenToHall), the per-invocation   *)
(* goroutines started by Go (the task wrapper with recover and the         *)
(* supervision race) and emitNoise.                                        *)
(*                                                                         *)
(* Goroutines interleave freely.  Durations are abstracted: a timer        *)
(* (time.After, the ticker) may fire at any moment at which its goroutine  *)
(* is blocked in the select that waits for it, but not during the          *)
(* straight-line code between two blocking operations (no configured       *)
(* timeout is shorter than 5ms).  A goroutine blocked in a select is       *)
(* resolved by the first event that makes one of its cases ready; when     *)
(* several cases are ready as the select is entered, any of them may be    *)
(* chosen.                                                                 *)
(***************************************************************************)
EXTENDS Naturals, Sequences, FiniteSets

\* ------------------------------------------------------------------ bounds

\* Number of invocations of Go in the general specification.
MaxTasks == 2

\* Capacity of the hall (cfg.hallSize) in the specifications that vary it.
HallSize == 1

\* Number of invocations of Go in the small specifications: those that
\* state fairness and those that follow the hall's contents.
LiveTasks == 1

\* Number of options given to one call of NewConfiguration.
MaxOpts == 2

\* ------------------------------------------------------- program constants

DefaultHallSize == 1024

DefaultToleranceCap == 2

MinHallSize == 1

MaxHallSize == 1048576

MinToleranceCap == 1

MaxToleranceCap == 1000000

\* Durations are in milliseconds.
DefaultHallTimeout == 10

DefaultTeardownTimeout == 50

DefaultToleranceWindow == 100

MinHallTimeout == 5

MaxHallTimeout == 500

MinToleranceWindow == 5

MaxToleranceWindow == 60000

MinTeardownTimeout == 5

MaxTeardownTimeout == 200

\* Number of invocations of Go in TestNonCompliantTaskWithCancelMultipleTimes.
ScenarioTasks == 3

\* ---------------------------------------------------------------- values

Nil == "nil"

ErrToleranceExceeded == "watchdog tolerance exceeded"

ErrTaskPanicked == "task under watch panicked"

ErrTaskNotContextCompliant == "task not context compliant"

Growl == "growl"

Bark == "bark"

Cry == "cry"

\* Values a task may panic with (thelp.PanicTask panics with "panic").
PanicValues == {"panic"}

VARIABLES
    watched,        \* Watch has been called
    closed,         \* the channel w.close is closed
    closeFaults,    \* a call of Close has panicked
    escaped,        \* invocations whose panic left the task wrapper
    cancelled,      \* the context the caller gives to Go is cancelled
    hallSize,       \* cap(w.hall)
    toleranceCap,   \* w.toleranceCap
    errCount,       \* w.errCount
    hall,           \* w.hall, oldest first
    heard,          \* the noises handed to owner.Hear, in order
    mpc,            \* monitorTolerance: "idle", "select", "emit", "store", "done"
    snapshot,       \* monitorTolerance's errCountSnapshot (0 after the reset)
    tickerStopped,  \* ticker.Stop() was called
    lpc,            \* listenToHall: "idle", "select", "hear", "done"
    tpc,            \* per invocation, the task wrapper goroutine
    tval,           \* per invocation, the value the task panicked with
    spc,            \* per invocation, the supervision goroutine
    hist,           \* per invocation, what the invocation did (history)
    barks,          \* the Bark noises monitorTolerance has emitted (history)
    cfg             \* the call of NewConfiguration: its arguments and result

vars == <<watched, closed, closeFaults, escaped, cancelled,
          hallSize, toleranceCap, errCount, hall, heard, mpc, snapshot,
          tickerStopped, lpc, tpc, tval, spc, hist, barks, cfg>>

Tasks == DOMAIN tpc

NoHist == [cry |-> 0, growl |-> 0, incs |-> 0, early |-> FALSE,
           timer |-> FALSE]

\* --------------------------------------------------------- configuration

\* The fields of Configuration that an Option with a validated range sets.
Fields ==
    {"hallSize", "hallTimeout", "toleranceWindow", "teardownTimeout",
     "toleranceCap"}

\* The outcome of calling an option constructor: the call panics, or it
\* returns the Option that stores value into field.
Option(panics, field, value) ==
    [panics |-> panics, field |-> field, value |-> value]

\* Variant of WithHallSize: a size outside the range is brought to the
\* nearest bound instead of being rejected.
WithHallSizeClamping(size) ==
    Option(FALSE, "hallSize",
           IF size < MinHallSize THEN MinHallSize
           ELSE IF size > MaxHallSize THEN MaxHallSize ELSE size)

WithHallSize(size) ==
    Option(size < MinHallSize \/ size > MaxHallSize, "hallSize", size)

WithHallTimeout(timeout) ==
    Option(timeout < MinHallTimeout \/ timeout > MaxHallTimeout,
           "hallTimeout", timeout)

WithToleranceWindow(window) ==
    Option(window < MinToleranceWindow \/ window > MaxToleranceWindow,
           "toleranceWindow", window)

WithTeardownTimeout(timeout) ==
    Option(timeout < MinTeardownTimeout \/ timeout > MaxTeardownTimeout,
           "teardownTimeout", timeout)

WithToleranceCap(cap) ==
    Option(cap < MinToleranceCap \/ cap > MaxToleranceCap,
           "toleranceCap", cap)

\* The option constructor for a field, applied to v.
With(field, v) ==
    CASE field = "hallSize" -> WithHallSize(v)
      [] field = "hallTimeout" -> WithHallTimeout(v)
      [] field = "toleranceWindow" -> WithToleranceWindow(v)
      [] field = "teardownTimeout" -> WithTeardownTimeout(v)
      [] field = "toleranceCap" -> WithToleranceCap(v)

\* The zero Configuration: no Configuration has been built.
NoConfiguration ==
    [owner |-> Nil, hallSize |-> 0, hallTimeout |-> 0, toleranceWindow |-> 0,
     teardownTimeout |-> 0, toleranceCap |-> 0]

\* The Configuration NewConfiguration starts from.
Defaults(owner) ==
    [owner |-> owner,
     hallSize |-> DefaultHallSize,
     hallTimeout |-> DefaultHallTimeout,
     toleranceWindow |-> DefaultToleranceWindow,
     teardownTimeout |-> DefaultTeardownTimeout,
     toleranceCap |-> DefaultToleranceCap]

\* for _, opt := range opts { opt(c) }
RECURSIVE ApplyOpts(_, _)
ApplyOpts(c, opts) ==
    IF opts = <<>> THEN c
    ELSE ApplyOpts([c EXCEPT ![Head(opts).field] = Head(opts).value],
                   Tail(opts))

\* No call of NewConfiguration has been made and no argument evaluated.
NoCall ==
    [pc |-> "args", args |-> <<>>, opts |-> <<>>, owner |-> "none",
     c |-> NoConfiguration]

\* The values the caller gives to the option constructor of a field: the
\* bounds of its range, their outer neighbours and the default.
Inputs(field) ==
    CASE field = "hallSize" ->
             {MinHallSize - 1, MinHallSize, DefaultHallSize, MaxHallSize,
              MaxHallSize + 1}
      [] field = "hallTimeout" ->
             {MinHallTimeout - 1, MinHallTimeout, DefaultHallTimeout,
              MaxHallTimeout, MaxHallTimeout + 1}
      [] field = "toleranceWindow" ->
             {MinToleranceWindow - 1, MinToleranceWindow,
              DefaultToleranceWindow, MaxToleranceWindow,
              MaxToleranceWindow + 1}
      [] field = "teardownTimeout" ->
             {MinTeardownTimeout - 1, MinTeardownTimeout,
              DefaultTeardownTimeout, MaxTeardownTimeout,
              MaxTeardownTimeout + 1}
      [] field = "toleranceCap" ->
             {MinToleranceCap - 1, MinToleranceCap, DefaultToleranceCap,
              MaxToleranceCap, MaxToleranceCap + 1}

\* The owners the caller gives to NewConfiguration.
Owners == {Nil, "owner"}

\* The caller evaluates an argument With...(v) of NewConfiguration: the
\* constructor panics, or its Option joins the arguments.
OptionCall(field, v) ==
    /\ cfg.pc = "args"
    /\ Len(cfg.args) < MaxOpts
    /\ cfg' = IF With(field, v).panics
              THEN [cfg EXCEPT !.pc = "panicked",
                               !.args = Append(@, <<field, v>>)]
              ELSE [cfg EXCEPT !.args = Append(@, <<field, v>>),
                               !.opts = Append(@, With(field, v))]
    /\ UNCHANGED <<watched, closed, closeFaults, escaped, cancelled,
                   hallSize, toleranceCap, errCount, hall, heard, mpc,
                   snapshot, tickerStopped, lpc, tpc, tval, spc, hist, barks>>

\* NewConfiguration(owner, opts...): panic for a nil owner, else the
\* defaults with the options applied in order.
NewConfiguration(owner) ==
    /\ cfg.pc = "args"
    /\ cfg' = IF owner = Nil
              THEN [cfg EXCEPT !.pc = "panicked", !.owner = owner]
              ELSE [cfg EXCEPT !.pc = "built", !.owner = owner,
                               !.c = ApplyOpts(Defaults(owner), cfg.opts)]
    /\ UNCHANGED <<watched, closed, closeFaults, escaped, cancelled,
                   hallSize, toleranceCap, errCount, hall, heard, mpc,
                   snapshot, tickerStopped, lpc, tpc, tval, spc, hist, barks>>

\* The call NewConfiguration(owner, WithHallSize(size),
\* WithToleranceCap(cap)) after it has returned.
Configured(size, cap) ==
    [pc |-> "built",
     args |-> << <<"hallSize", size>>, <<"toleranceCap", cap>> >>,
     opts |-> <<WithHallSize(size), WithToleranceCap(cap)>>,
     owner |-> "owner",
     c |-> ApplyOpts(Defaults("owner"),
                     <<WithHallSize(size), WithToleranceCap(cap)>>)]

\* ---------------------------------------------------------------- noises

Noise(type, count, err, payload) ==
    [Type |-> type, ErrCount |-> count, Error |-> err, Payload |-> payload]

\* Variant of CryNoise: the recovered value is not put into the Noise.
CryNoiseNoPayload(r) == Noise(Cry, 0, ErrTaskPanicked, Nil)

CryNoise(r) == Noise(Cry, 0, ErrTaskPanicked, r)

GrowlNoise == Noise(Growl, 0, ErrTaskNotContextCompliant, Nil)

BarkNoise(n) == Noise(Bark, n, ErrToleranceExceeded, Nil)

\* ------------------------------------------------------------- emitNoise

\* Variant of EmitOutcomes: emitNoise without the time.After(hallTimeout)
\* case waits until the hall has room or the watchdog is closed.
EmitOutcomesNoTimeout ==
    (IF closed THEN {"closed"} ELSE {})
        \cup (IF Len(hall) < hallSize THEN {"sent"} ELSE {})

\* Variant of EmitOutcomes: the send into the hall succeeds whether the
\* hall has room or not, as if the channel grew on demand.
EmitOutcomesGrowing ==
    (IF closed THEN {"closed"} ELSE {}) \cup {"sent"}

\* The outcomes of emitNoise's select that are possible in the current
\* state: "closed" (w.close is closed), "sent" (the hall has room) and
\* "timeout" (the hall stayed full until time.After(hallTimeout) fired).
EmitOutcomes ==
    (IF closed THEN {"closed"} ELSE {})
        \cup (IF Len(hall) < hallSize THEN {"sent"} ELSE {"timeout"})

\* The hall after emitNoise(noise) ended with outcome o.
EmitNoise(noise, o) ==
    IF o = "sent" THEN Append(hall, noise) ELSE hall

\* ------------------------------------------------------------------ New

\* No WDog exists yet: New has not been called.
InitCfg ==
    /\ cfg = NoCall
    /\ watched = FALSE
    /\ closed = FALSE
    /\ closeFaults = FALSE
    /\ escaped = {}
    /\ cancelled = FALSE
    /\ hallSize = 0
    /\ toleranceCap = 0
    /\ errCount = 0
    /\ hall = <<>>
    /\ heard = <<>>
    /\ mpc = "idle"
    /\ snapshot = 0
    /\ tickerStopped = FALSE
    /\ lpc = "idle"
    /\ tpc = <<>>
    /\ tval = <<>>
    /\ spc = <<>>
    /\ hist = <<>>
    /\ barks = <<>>

\* New(cfg): the hall is made with cfg.hallSize and the tolerance cap is
\* copied from the Configuration.
New ==
    /\ cfg.pc = "built"
    /\ hallSize = 0
    /\ hallSize' = cfg.c.hallSize
    /\ toleranceCap' = cfg.c.toleranceCap
    /\ errCount' = 0
    /\ hall' = <<>>
    /\ UNCHANGED <<cfg, watched, closed, closeFaults, escaped, cancelled,
                   heard, mpc, snapshot, tickerStopped, lpc, tpc, tval, spc,
                   hist, barks>>

\* The state after New(NewConfiguration(owner, WithHallSize(size),
\* WithToleranceCap(cap))), with room for n invocations of Go.
InitWith(n, size, cap) ==
    /\ cfg = Configured(size, cap)
    /\ watched = FALSE
    /\ closed = FALSE
    /\ closeFaults = FALSE
    /\ escaped = {}
    /\ cancelled = FALSE
    /\ hallSize = cfg.c.hallSize
    /\ toleranceCap = cfg.c.toleranceCap
    /\ errCount = 0
    /\ hall = <<>>
    /\ heard = <<>>
    /\ mpc = "idle"
    /\ snapshot = 0
    /\ tickerStopped = FALSE
    /\ lpc = "idle"
    /\ tpc = [i \in 1..n |-> "idle"]
    /\ tval = [i \in 1..n |-> Nil]
    /\ spc = [i \in 1..n |-> "idle"]
    /\ hist = [i \in 1..n |-> NoHist]
    /\ barks = <<>>

\* New(NewConfiguration(owner, WithHallSize(MinHallSize))): the smallest
\* hall the configuration accepts, which the first noise fills.
Init == InitWith(MaxTasks, MinHallSize, DefaultToleranceCap)

\* New(NewConfiguration(owner, WithHallSize(HallSize),
\*                      WithToleranceCap(MinToleranceCap)))
InitCap1 == InitWith(MaxTasks, HallSize, MinToleranceCap)

InitLive == InitWith(LiveTasks, HallSize, MinToleranceCap)

\* New(NewConfiguration(owner, WithHallSize(HallSize + 1),
\*                      WithToleranceCap(MinToleranceCap))): the hall holds
\* several noises at once.
InitFifo == InitWith(LiveTasks, HallSize + 1, MinToleranceCap)

\* ------------------------------------------------------- Watch and Close

Watch ==
    /\ ~watched
    /\ watched' = TRUE
    /\ mpc' = "select"
    /\ lpc' = "select"
    /\ UNCHANGED <<cfg, closed, closeFaults, escaped, cancelled,
                   hallSize, toleranceCap, errCount, hall, heard, snapshot,
                   tickerStopped, tpc, tval, spc, hist, barks>>

\* Close, called once as its contract asks: close(w.close).
Close ==
    /\ ~closed
    /\ closed' = TRUE
    /\ UNCHANGED <<cfg, watched, closeFaults, escaped, cancelled, hallSize,
                   toleranceCap, errCount, hall, heard, mpc, snapshot,
                   tickerStopped, lpc, tpc, tval, spc, hist, barks>>

\* Close, called again: close(w.close) of a closed channel panics in the
\* caller ("close of closed channel").
CloseAgain ==
    /\ closed
    /\ closeFaults' = TRUE
    /\ UNCHANGED <<cfg, watched, closed, escaped, cancelled, hallSize,
                   toleranceCap, errCount, hall, heard, mpc, snapshot,
                   tickerStopped, lpc, tpc, tval, spc, hist, barks>>

\* The caller cancels the shared context.  A supervision goroutine blocked
\* in its outer select on this context is woken by ctx.Done().
Cancel ==
    /\ ~cancelled
    /\ cancelled' = TRUE
    /\ spc' = [i \in Tasks |->
                 IF spc[i] = "outer" THEN "inner" ELSE spc[i]]
    /\ UNCHANGED <<cfg, watched, closed, closeFaults, escaped,
                   hallSize, toleranceCap, errCount, hall, heard, mpc,
                   snapshot, tickerStopped, lpc, tpc, tval, hist, barks>>

\* ------------------------------------------------------------------- Go

\* done is closed once the task wrapper goroutine has run its deferred calls.
DoneClosed(i) == tpc[i] \in {"returned", "panicked"}

\* <-ctx.Done() is ready for invocation i.
CtxDone(i) == cancelled

\* Variant of AfterCloseDone: close(done) wakes the outer select only; a
\* supervision goroutine in its inner select goes on waiting for the timer.
AfterCloseDoneOuterOnly(i) ==
    [spc EXCEPT ![i] = IF @ = "outer" THEN "end" ELSE @]

\* close(done): a supervision goroutine blocked on <-done, in its outer or
\* in its inner select, is woken by it and ends silently.
AfterCloseDone(i) ==
    [spc EXCEPT ![i] = IF @ \in {"outer", "grace"} THEN "end" ELSE @]

\* Variant of Go: Go returns only when the task is over (it waits for
\* <-done), so its caller makes the next call only after that.
GoWaiting(i) ==
    /\ watched
    /\ tpc[i] = "idle"
    /\ \A j \in Tasks : j < i => DoneClosed(j)
    /\ tpc' = [tpc EXCEPT ![i] = "running"]
    /\ spc' = [spc EXCEPT ![i] = "start"]
    /\ UNCHANGED <<cfg, watched, closed, closeFaults, escaped,
                   cancelled, hallSize, toleranceCap, errCount, hall, heard,
                   mpc, snapshot, tickerStopped, lpc, tval, hist, barks>>

\* Go(ctx, t): start the task wrapper goroutine and the supervision
\* goroutine and return.  Invocations are numbered in the order of the calls.
Go(i) ==
    /\ watched
    /\ tpc[i] = "idle"
    /\ \A j \in Tasks : j < i => tpc[j] # "idle"
    /\ tpc' = [tpc EXCEPT ![i] = "running"]
    /\ spc' = [spc EXCEPT ![i] = "start"]
    /\ UNCHANGED <<cfg, watched, closed, closeFaults, escaped,
                   cancelled, hallSize, toleranceCap, errCount, hall, heard,
                   mpc, snapshot, tickerStopped, lpc, tval, hist, barks>>

\* t(ctx) returns: recover() yields nil, then close(done).
TaskReturn(i) ==
    /\ tpc[i] = "running"
    /\ tpc' = [tpc EXCEPT ![i] = "returned"]
    /\ hist' = [hist EXCEPT ![i].early = ~CtxDone(i)]
    /\ spc' = AfterCloseDone(i)
    /\ UNCHANGED <<cfg, watched, closed, closeFaults, escaped,
                   cancelled, hallSize, toleranceCap, errCount, hall, heard,
                   mpc, snapshot, tickerStopped, lpc,  tval, barks>>

\* Variant of TaskPanic: the wrapper defers no recover(), so the panic
\* leaves the goroutine.
TaskPanicUnrecovered(i, v) ==
    /\ tpc[i] = "running"
    /\ tpc' = [tpc EXCEPT ![i] = "crashed"]
    /\ tval' = [tval EXCEPT ![i] = v]
    /\ escaped' = escaped \cup {i}
    /\ UNCHANGED <<cfg, watched, closed, closeFaults, cancelled, hallSize,
                   toleranceCap, errCount, hall, heard, mpc, snapshot,
                   tickerStopped, lpc, spc, hist, barks>>

\* t(ctx) panics with v: the deferred function's recover() stops the panic
\* and yields v, which is not nil, so emitNoise is entered with a Cry.
TaskPanic(i, v) ==
    /\ tpc[i] = "running"
    /\ tpc' = [tpc EXCEPT ![i] = "recover"]
    /\ tval' = [tval EXCEPT ![i] = v]
    /\ UNCHANGED <<cfg, watched, closed, closeFaults, escaped,
                   cancelled, hallSize, toleranceCap, errCount, hall, heard,
                   mpc, snapshot, tickerStopped, lpc,  spc, hist, barks>>

\* Variant of RecoverEmit: the recovery also counts the panic as an error.
RecoverEmitCounting(i) ==
    /\ tpc[i] = "recover"
    /\ \E o \in EmitOutcomes :
          /\ hall' = EmitNoise(CryNoise(tval[i]), o)
          /\ hist' = [hist EXCEPT ![i].cry = @ + 1, ![i].incs = @ + 1,
                                   ![i].early = ~CtxDone(i)]
    /\ errCount' = errCount + 1
    /\ tpc' = [tpc EXCEPT ![i] = "panicked"]
    /\ spc' = AfterCloseDone(i)
    /\ UNCHANGED <<cfg, watched, closed, closeFaults, escaped, cancelled,
                   hallSize, toleranceCap, heard, mpc, snapshot,
                   tickerStopped, lpc, tval, barks>>

\* Variant of RecoverEmit: the wrapper emits no Cry for an invocation that
\* the supervision goroutine has already flagged with a Growl.
RecoverEmitUnflagged(i) ==
    /\ tpc[i] = "recover"
    /\ IF hist[i].growl = 0
       THEN \E o \in EmitOutcomes :
               /\ hall' = EmitNoise(CryNoise(tval[i]), o)
               /\ hist' = [hist EXCEPT ![i].cry = @ + 1,
                                        ![i].early = ~CtxDone(i)]
       ELSE UNCHANGED <<hall, hist>>
    /\ tpc' = [tpc EXCEPT ![i] = "panicked"]
    /\ spc' = AfterCloseDone(i)
    /\ UNCHANGED <<cfg, watched, closed, closeFaults, escaped,
                   cancelled, hallSize, toleranceCap, errCount, heard, mpc,
                   snapshot, tickerStopped, lpc,  tval, barks>>

\* emitNoise(Cry) returns, then the deferred close(done) runs.
RecoverEmit(i) ==
    /\ tpc[i] = "recover"
    /\ \E o \in EmitOutcomes :
          /\ hall' = EmitNoise(CryNoise(tval[i]), o)
          /\ hist' = [hist EXCEPT ![i].cry = @ + 1,
                                   ![i].early = ~CtxDone(i)]
    /\ tpc' = [tpc EXCEPT ![i] = "panicked"]
    /\ spc' = AfterCloseDone(i)
    /\ UNCHANGED <<cfg, watched, closed, closeFaults, escaped,
                   cancelled, hallSize, toleranceCap, errCount, heard, mpc,
                   snapshot, tickerStopped, lpc,  tval, barks>>

\* Variant of SuperviseOuter: <-ctx.Done() leads straight to the alert,
\* with no teardown timer.
SuperviseOuterNoGrace(i) ==
    /\ spc[i] = "start"
    /\ \E next \in (IF DoneClosed(i) THEN {"end"} ELSE {})
                     \cup (IF CtxDone(i) THEN {"incr"} ELSE {})
                     \cup (IF ~DoneClosed(i) /\ ~CtxDone(i)
                           THEN {"outer"} ELSE {}) :
          spc' = [spc EXCEPT ![i] = next]
    /\ UNCHANGED <<cfg, watched, closed, closeFaults, escaped,
                   cancelled, hallSize, toleranceCap, errCount, hall, heard,
                   mpc, snapshot, tickerStopped, lpc, tpc, tval, hist,
                   barks>>

\* The supervision goroutine enters its outer select.  Each case that is
\* ready may be chosen; with none ready the goroutine blocks.
SuperviseOuter(i) ==
    /\ spc[i] = "start"
    /\ \E next \in (IF DoneClosed(i) THEN {"end"} ELSE {})
                     \cup (IF CtxDone(i) THEN {"inner"} ELSE {})
                     \cup (IF ~DoneClosed(i) /\ ~CtxDone(i)
                           THEN {"outer"} ELSE {}) :
          spc' = [spc EXCEPT ![i] = next]
    /\ UNCHANGED <<cfg, watched, closed, closeFaults, escaped,
                   cancelled, hallSize, toleranceCap, errCount, hall, heard,
                   mpc, snapshot, tickerStopped, lpc, tpc, tval, hist,
                   barks>>

\* Variant of SuperviseInner: the inner select has no <-done case, so only
\* the teardown timer ends it.
SuperviseInnerNoDone(i) ==
    /\ spc[i] = "inner"
    /\ spc' = [spc EXCEPT ![i] = "incr"]
    /\ hist' = [hist EXCEPT ![i].timer = TRUE]
    /\ UNCHANGED <<cfg, watched, closed, closeFaults, escaped,
                   cancelled, hallSize, toleranceCap, errCount, hall, heard,
                   mpc, snapshot, tickerStopped, lpc, tpc, tval, barks>>

\* After <-ctx.Done() the goroutine enters the inner select, which starts
\* time.After(teardownTimeout): with done closed it ends, else it blocks.
SuperviseInner(i) ==
    /\ spc[i] = "inner"
    /\ spc' = [spc EXCEPT ![i] = IF DoneClosed(i) THEN "end" ELSE "grace"]
    /\ UNCHANGED <<cfg, watched, closed, closeFaults, escaped,
                   cancelled, hallSize, toleranceCap, errCount, hall, heard,
                   mpc, snapshot, tickerStopped, lpc, tpc, tval, hist,
                   barks>>

\* Variant of TeardownTimeout: the teardown timer runs from the start of the
\* supervision, whether or not the context is cancelled.
TeardownTimeoutUncancelled(i) ==
    /\ spc[i] \in {"outer", "grace"}
    /\ spc' = [spc EXCEPT ![i] = "incr"]
    /\ hist' = [hist EXCEPT ![i].timer = TRUE]
    /\ UNCHANGED <<cfg, watched, closed, closeFaults, escaped,
                   cancelled, hallSize, toleranceCap, errCount, hall, heard,
                   mpc, snapshot, tickerStopped, lpc, tpc, tval, barks>>

\* time.After(teardownTimeout) fires while the goroutine is blocked in the
\* inner select.
TeardownTimeout(i) ==
    /\ spc[i] = "grace"
    /\ spc' = [spc EXCEPT ![i] = "incr"]
    /\ hist' = [hist EXCEPT ![i].timer = TRUE]
    /\ UNCHANGED <<cfg, watched, closed, closeFaults, escaped,
                   cancelled, hallSize, toleranceCap, errCount, hall, heard,
                   mpc, snapshot, tickerStopped, lpc, tpc, tval, barks>>

\* Variant of SuperviseAdd: the teardown path does not count the error.
SuperviseAddNone(i) ==
    /\ spc[i] = "incr"
    /\ spc' = [spc EXCEPT ![i] = "emit"]
    /\ UNCHANGED <<cfg, watched, closed, closeFaults, escaped, cancelled,
                   hallSize, toleranceCap, errCount, hall, heard, mpc,
                   snapshot, tickerStopped, lpc, tpc, tval, hist, barks>>

\* atomic.AddInt32(&w.errCount, 1)
SuperviseAdd(i) ==
    /\ spc[i] = "incr"
    /\ errCount' = errCount + 1
    /\ hist' = [hist EXCEPT ![i].incs = @ + 1]
    /\ spc' = [spc EXCEPT ![i] = "emit"]
    /\ UNCHANGED <<cfg, watched, closed, closeFaults, escaped,
                   cancelled, hallSize, toleranceCap, hall, heard, mpc,
                   snapshot, tickerStopped, lpc, tpc, tval, barks>>

\* emitNoise(Growl)
SuperviseEmit(i) ==
    /\ spc[i] = "emit"
    /\ \E o \in EmitOutcomes :
          /\ hall' = EmitNoise(GrowlNoise, o)
          /\ hist' = [hist EXCEPT ![i].growl = @ + 1]
    /\ spc' = [spc EXCEPT ![i] = "end"]
    /\ UNCHANGED <<cfg, watched, closed, closeFaults, escaped,
                   cancelled, hallSize, toleranceCap, errCount, heard, mpc,
                   snapshot, tickerStopped, lpc, tpc, tval, barks>>

\* ------------------------------------------------------ monitorTolerance

\* Variant of MonitorTick: a tick that finds the counter below the cap
\* stores 0 into it, so that every window starts counting afresh.
MonitorTickResetting ==
    /\ mpc = "select"
    /\ mpc' = IF errCount >= toleranceCap THEN "emit" ELSE "select"
    /\ snapshot' = errCount
    /\ errCount' = IF errCount >= toleranceCap THEN errCount ELSE 0
    /\ UNCHANGED <<cfg, watched, closed, closeFaults, escaped,
                   cancelled, hallSize, toleranceCap, hall, heard,
                   tickerStopped, lpc, tpc, tval, spc, hist, barks>>

\* <-ticker.C: load the counter into errCountSnapshot and compare it with
\* the cap.  Below the cap the iteration ends here, and the snapshot stays
\* as the count with which the next tolerance window begins.
MonitorTick ==
    /\ mpc = "select"
    /\ mpc' = IF errCount >= toleranceCap THEN "emit" ELSE "select"
    /\ snapshot' = errCount
    /\ UNCHANGED <<cfg, watched, closed, closeFaults, escaped,
                   cancelled, hallSize, toleranceCap, errCount, hall, heard,
                   tickerStopped, lpc, tpc, tval, spc, hist, barks>>

\* emitNoise(Bark with the snapshot)
MonitorEmit ==
    /\ mpc = "emit"
    /\ \E o \in EmitOutcomes :
          /\ hall' = EmitNoise(BarkNoise(snapshot), o)
          /\ barks' = Append(barks, BarkNoise(snapshot))
    /\ mpc' = "store"
    /\ UNCHANGED <<cfg, watched, closed, closeFaults, escaped,
                   cancelled, hallSize, toleranceCap, errCount, heard,
                   snapshot, tickerStopped, lpc, tpc, tval, spc, hist>>

\* Variant of MonitorStore: the counter is not reset after the Bark.
MonitorStoreNoReset ==
    /\ mpc = "store"
    /\ mpc' = "select"
    /\ snapshot' = 0
    /\ UNCHANGED <<cfg, watched, closed, closeFaults, escaped,
                   cancelled, hallSize, toleranceCap, errCount, hall, heard,
                   tickerStopped, lpc, tpc, tval, spc, hist, barks>>

\* Variant of MonitorStore: the errors that the Bark reported are taken off
\* the counter (atomic.AddInt32(&w.errCount, -errCountSnapshot)).
MonitorStoreSubtract ==
    /\ mpc = "store"
    /\ errCount' = errCount - snapshot
    /\ mpc' = "select"
    /\ snapshot' = 0
    /\ UNCHANGED <<cfg, watched, closed, closeFaults, escaped,
                   cancelled, hallSize, toleranceCap, hall, heard,
                   tickerStopped, lpc, tpc, tval, spc, hist, barks>>

\* atomic.StoreInt32(&w.errCount, 0)
MonitorStore ==
    /\ mpc = "store"
    /\ errCount' = 0
    /\ mpc' = "select"
    /\ snapshot' = 0
    /\ UNCHANGED <<cfg, watched, closed, closeFaults, escaped,
                   cancelled, hallSize, toleranceCap, hall, heard,
                   tickerStopped, lpc, tpc, tval, spc, hist, barks>>

\* Variant of MonitorClose: the monitor returns without ticker.Stop().
MonitorCloseNoStop ==
    /\ mpc = "select"
    /\ closed
    /\ mpc' = "done"
    /\ UNCHANGED <<cfg, watched, closed, closeFaults, escaped,
                   cancelled, hallSize, toleranceCap, errCount, hall, heard,
                   snapshot, tickerStopped, lpc, tpc, tval, spc, hist, barks>>

\* <-w.close: ticker.Stop() and return.
MonitorClose ==
    /\ mpc = "select"
    /\ closed
    /\ tickerStopped' = TRUE
    /\ mpc' = "done"
    /\ UNCHANGED <<cfg, watched, closed, closeFaults, escaped,
                   cancelled, hallSize, toleranceCap, errCount, hall, heard,
                   snapshot, lpc, tpc, tval, spc, hist, barks>>

\* ---------------------------------------------------------- listenToHall

\* Variant of ListenReceive: the listener takes the newest noise of the hall
\* instead of the oldest.
ListenReceiveLast ==
    /\ lpc = "select"
    /\ hall # <<>>
    /\ heard' = Append(heard, hall[Len(hall)])
    /\ hall' = SubSeq(hall, 1, Len(hall) - 1)
    /\ lpc' = "hear"
    /\ UNCHANGED <<cfg, watched, closed, closeFaults, escaped,
                   cancelled, hallSize, toleranceCap, errCount, mpc, snapshot,
                   tickerStopped, tpc, tval, spc, hist, barks>>

\* Variant of ListenReceive: the listener hands the noise to the owner in a
\* goroutine of its own (go w.owner.Hear(noise)) and goes on receiving.
ListenReceiveAsync ==
    /\ lpc = "select"
    /\ hall # <<>>
    /\ heard' = Append(heard, Head(hall))
    /\ hall' = Tail(hall)
    /\ UNCHANGED <<cfg, watched, closed, closeFaults, escaped,
                   cancelled, hallSize, toleranceCap, errCount, mpc, snapshot,
                   tickerStopped, lpc, tpc, tval, spc, hist, barks>>

\* Variant of ListenReceive: the listener hands the head of the hall to the
\* owner and leaves it in the hall.
ListenReceivePeek ==
    /\ lpc = "select"
    /\ hall # <<>>
    /\ heard' = Append(heard, Head(hall))
    /\ lpc' = "hear"
    /\ UNCHANGED <<cfg, watched, closed, closeFaults, escaped,
                   cancelled, hallSize, toleranceCap, errCount, hall, mpc,
                   snapshot, tickerStopped, tpc, tval, spc, hist, barks>>

\* noise := <-w.hall, then owner.Hear(noise) is called.
ListenReceive ==
    /\ lpc = "select"
    /\ hall # <<>>
    /\ heard' = Append(heard, Head(hall))
    /\ hall' = Tail(hall)
    /\ lpc' = "hear"
    /\ UNCHANGED <<cfg, watched, closed, closeFaults, escaped,
                   cancelled, hallSize, toleranceCap, errCount, mpc, snapshot,
                   tickerStopped, tpc, tval, spc, hist, barks>>

\* owner.Hear returns.
HearReturn ==
    /\ lpc = "hear"
    /\ lpc' = "select"
    /\ UNCHANGED <<cfg, watched, closed, closeFaults, escaped,
                   cancelled, hallSize, toleranceCap, errCount, hall, heard,
                   mpc, snapshot, tickerStopped, tpc, tval, spc, hist,
                   barks>>

\* Variant of ListenClose: the listener also returns when it finds the hall
\* empty, closed or not.
ListenCloseEarly ==
    /\ lpc = "select"
    /\ closed \/ hall = <<>>
    /\ lpc' = "done"
    /\ UNCHANGED <<cfg, watched, closed, closeFaults, escaped,
                   cancelled, hallSize, toleranceCap, errCount, hall, heard,
                   mpc, snapshot, tickerStopped, tpc, tval, spc, hist,
                   barks>>

\* <-w.close: return.
ListenClose ==
    /\ lpc = "select"
    /\ closed
    /\ lpc' = "done"
    /\ UNCHANGED <<cfg, watched, closed, closeFaults, escaped,
                   cancelled, hallSize, toleranceCap, errCount, hall, heard,
                   mpc, snapshot, tickerStopped, tpc, tval, spc, hist,
                   barks>>

\* ---------------------------------------------------------- specification

GoAny == \E i \in Tasks : Go(i)

TaskReturnAny == \E i \in Tasks : TaskReturn(i)

TaskPanicAny == \E i \in Tasks, v \in PanicValues : TaskPanic(i, v)

RecoverEmitAny == \E i \in Tasks : RecoverEmit(i)

SuperviseOuterAny == \E i \in Tasks : SuperviseOuter(i)

SuperviseInnerAny == \E i \in Tasks : SuperviseInner(i)

TeardownTimeoutAny == \E i \in Tasks : TeardownTimeout(i)

SuperviseAddAny == \E i \in Tasks : SuperviseAdd(i)

SuperviseEmitAny == \E i \in Tasks : SuperviseEmit(i)

Next ==
    \/ Watch
    \/ Close
    \/ Cancel
    \/ GoAny
    \/ TaskReturnAny
    \/ TaskPanicAny
    \/ RecoverEmitAny
    \/ SuperviseOuterAny
    \/ SuperviseInnerAny
    \/ TeardownTimeoutAny
    \/ SuperviseAddAny
    \/ SuperviseEmitAny
    \/ MonitorTick
    \/ MonitorEmit
    \/ MonitorStore
    \/ MonitorClose
    \/ ListenReceive
    \/ HearReturn
    \/ ListenClose

Spec == Init /\ [][Next]_vars

\* The program is configured with the smallest tolerance cap, so that one
\* invocation suffices to make the monitor emit.  The goroutines that emit
\* noises are scheduled fairly: an emitNoise whose
\* select has a ready case returns.  Nothing is assumed of the listener
\* or of the owner, which may stall.
SpecStall ==
    /\ InitLive
    /\ [][Next]_vars
    /\ \A i \in 1..LiveTasks :
          WF_vars(SuperviseEmit(i)) /\ WF_vars(RecoverEmit(i))
    /\ WF_vars(MonitorEmit)

\* The program is configured with the smallest tolerance cap, so that one
\* invocation suffices to make the monitor emit.  The two loops are
\* scheduled fairly and each call of owner.Hear returns;
\* nothing is assumed of the tasks and their supervision goroutines.
LiveSpec ==
    /\ InitLive
    /\ [][Next]_vars
    /\ WF_vars(MonitorEmit)
    /\ WF_vars(MonitorStore)
    /\ WF_vars(MonitorClose)
    /\ WF_vars(HearReturn)
    /\ WF_vars(ListenClose)

\* The program is configured with the smallest tolerance cap.  The
\* supervision goroutines are scheduled fairly: a select with a ready case
\* proceeds, time.After(teardownTimeout) fires, the increment is made and
\* emitNoise, whose select always gets a ready case, returns.  Nothing is
\* assumed of the tasks, of the loops or of the owner.
SpecSupervise ==
    /\ InitLive
    /\ [][Next]_vars
    /\ \A i \in 1..LiveTasks :
          /\ WF_vars(SuperviseOuter(i))
          /\ WF_vars(SuperviseInner(i))
          /\ WF_vars(TeardownTimeout(i))
          /\ WF_vars(SuperviseAdd(i))
          /\ WF_vars(SuperviseEmit(i))

\* TestNonCompliantTaskWithCancelMultipleTimes: the default configuration,
\* Watch, then three invocations of Go that share one context and whose
\* tasks do not return; the context is then cancelled and the watchdog is
\* not closed while the owner's history is observed.
Init6 ==
    /\ cfg = Configured(DefaultHallSize, DefaultToleranceCap)
    /\ watched = TRUE
    /\ closed = FALSE
    /\ closeFaults = FALSE
    /\ escaped = {}
    /\ cancelled = FALSE
    /\ hallSize = DefaultHallSize
    /\ toleranceCap = DefaultToleranceCap
    /\ errCount = 0
    /\ hall = <<>>
    /\ heard = <<>>
    /\ mpc = "select"
    /\ snapshot = 0
    /\ tickerStopped = FALSE
    /\ lpc = "select"
    /\ tpc = [i \in 1..ScenarioTasks |-> "running"]
    /\ tval = [i \in 1..ScenarioTasks |-> Nil]
    /\ spc = [i \in 1..ScenarioTasks |-> "start"]
    /\ hist = [i \in 1..ScenarioTasks |-> NoHist]
    /\ barks = <<>>

Next6 ==
    \/ Cancel
    \/ SuperviseOuterAny
    \/ SuperviseInnerAny
    \/ TeardownTimeoutAny
    \/ SuperviseAddAny
    \/ SuperviseEmitAny
    \/ MonitorTick
    \/ MonitorEmit
    \/ MonitorStore
    \/ ListenReceive
    \/ HearReturn

Spec6 == Init6 /\ [][Next6]_vars

\* TestPanicTaskMultipleTimes: the default configuration, Watch, then three
\* invocations of Go that share one context, which is cancelled at some
\* moment; a task that leaves "running" does so by panicking.
Next16 ==
    \/ Cancel
    \/ TaskPanicAny
    \/ RecoverEmitAny
    \/ SuperviseOuterAny
    \/ SuperviseInnerAny
    \/ TeardownTimeoutAny
    \/ SuperviseAddAny
    \/ SuperviseEmitAny
    \/ MonitorTick
    \/ MonitorEmit
    \/ MonitorStore
    \/ ListenReceive
    \/ HearReturn

Spec16 == Init6 /\ [][Next16]_vars

\* The program configured with the smallest tolerance cap, so that
\* supervisors can still increment the counter while the monitor handles a
\* tick that reached the cap, and given tasks that return or hang but do
\* not panic.
NextCap1 ==
    \/ Watch
    \/ Close
    \/ Cancel
    \/ GoAny
    \/ TaskReturnAny
    \/ SuperviseOuterAny
    \/ SuperviseInnerAny
    \/ TeardownTimeoutAny
    \/ SuperviseAddAny
    \/ SuperviseEmitAny
    \/ MonitorTick
    \/ MonitorEmit
    \/ MonitorStore
    \/ MonitorClose
    \/ ListenReceive
    \/ HearReturn
    \/ ListenClose

SpecCap1 == InitCap1 /\ [][NextCap1]_vars

\* The program with a hall that holds more than one noise and the smallest
\* tolerance cap: one invocation can have a Growl, a Cry and a Bark emitted.
SpecFifo == InitFifo /\ [][Next]_vars

\* The building of a Configuration and of the WDog from it.
NextCfg ==
    \/ \E field \in Fields : \E v \in Inputs(field) : OptionCall(field, v)
    \/ \E owner \in Owners : NewConfiguration(owner)
    \/ New

SpecCfg == InitCfg /\ [][NextCfg]_vars

\* The caller may also call Close again, against Close's contract.
NextReclose ==
    \/ Next
    \/ CloseAgain

SpecReclose == Init /\ [][NextReclose]_vars

\* ------------------------------------------------------------- properties

\* The number of elements of the sequence q that satisfy Test.
Count(q, Test(_)) == Cardinality({k \in 1..Len(q) : Test(q[k])})

IsCry(n) == n.Type = Cry

IsGrowl(n) == n.Type = Growl

IsBark(n) == n.Type = Bark

\* Invocation i emitted no noise and did not touch the counter.
Silent(i) == hist[i].cry = 0 /\ hist[i].growl = 0 /\ hist[i].incs = 0

\* C1: an invocation whose task returned normally before its context was
\* cancelled never emits a Cry or a Growl and never increments the error
\* counter, whether or not the context is cancelled afterwards.
C1_EarlyReturnIsSilent ==
    \A i \in Tasks :
        (tpc[i] = "returned" /\ hist[i].early)
            => (Silent(i) /\ spc[i] \in {"start", "inner", "end"})

\* The task returned before the cancellation, the context was cancelled
\* afterwards, and the supervision goroutine has ended.
C1_Witness ==
    \E i \in Tasks :
        /\ tpc[i] = "returned"
        /\ hist[i].early
        /\ cancelled
        /\ spc[i] = "end"

\* C2: an invocation emits at most one Growl; a Growl is emitted only after
\* the context was cancelled and the teardown timer started on that
\* cancellation has fired; and once the timer has fired for an invocation
\* (its task had not completed by then) its supervision ends with exactly
\* one Growl emitted.
C2_OneGrowlAfterTeardown ==
    \A i \in Tasks :
        /\ hist[i].growl <= 1
        /\ hist[i].growl = 1 => (cancelled /\ hist[i].timer)
        /\ hist[i].timer => spc[i] \in {"incr", "emit", "end"}
        /\ (hist[i].timer /\ spc[i] = "end") => hist[i].growl = 1
        /\ spc[i] \in {"incr", "emit"} => (hist[i].timer /\ hist[i].growl = 0)

\* The teardown timer fired for a running task and its Growl was emitted.
C2_Witness ==
    \E i \in Tasks :
        /\ hist[i].timer
        /\ spc[i] = "end"
        /\ hist[i].growl = 1
        /\ tpc[i] = "running"

\* The Cry noises now in the hall or already heard.
CriesDelivered == Count(hall, IsCry) + Count(heard, IsCry)

\* C3: a panic of a task never leaves the task wrapper, and an invocation
\* whose task panicked emits exactly one Cry, with Error ErrTaskPanicked and
\* the recovered value as Payload; no invocation emits more than one.
C3_PanicRecoveredOneCry ==
    /\ escaped = {}
    /\ \A i \in Tasks :
          /\ tpc[i] # "crashed"
          /\ hist[i].cry <= 1
          /\ tpc[i] = "panicked" => hist[i].cry = 1
          /\ hist[i].cry = 1 => (tpc[i] = "panicked" /\ tval[i] \in PanicValues)
    /\ CriesDelivered <= Cardinality({i \in Tasks : hist[i].cry = 1})
    /\ \A k \in 1..Len(hall) :
          IsCry(hall[k]) =>
              \E i \in Tasks : hist[i].cry = 1 /\ hall[k] = CryNoise(tval[i])
    /\ \A k \in 1..Len(heard) :
          IsCry(heard[k]) =>
              \E i \in Tasks : hist[i].cry = 1 /\ heard[k] = CryNoise(tval[i])

\* A task panicked, its one Cry was emitted and the owner heard it.
C3_Witness ==
    \E i \in Tasks :
        /\ tpc[i] = "panicked"
        /\ hist[i].cry = 1
        /\ \E k \in 1..Len(heard) : heard[k] = CryNoise(tval[i])

\* C4 as claimed: by the time the wrapper of a panicked task has finished,
\* the invocation has incremented the error counter once for the panic (on
\* top of any increment of its teardown path).
C4_PanicCounted ==
    \A i \in Tasks :
        tpc[i] = "panicked" => hist[i].incs = hist[i].growl + 1

\* C4 (amended): the panic path emits the Cry and leaves the error counter
\* alone; an invocation increments the counter only on its teardown path,
\* once, when its teardown timer has fired.
C4_PanicNotCounted ==
    [][\A i \in Tasks :
          /\ (tpc[i] \in {"running", "recover"} /\ tpc'[i] # tpc[i])
                => (errCount' = errCount /\ hist'[i].incs = hist[i].incs)
          /\ hist'[i].incs # hist[i].incs
                => (/\ spc[i] = "incr"
                    /\ hist[i].timer
                    /\ hist'[i].incs = hist[i].incs + 1
                    /\ errCount' = errCount + 1)]_vars

\* A task panicked and its Cry was emitted while the counter stayed at 0.
C4_Witness ==
    \E i \in Tasks :
        /\ tpc[i] = "panicked"
        /\ hist[i].cry = 1
        /\ hist[i].incs = 0
        /\ errCount = 0

\* The steps of monitorTolerance that handle a tick which reached the cap.
C5_TickStep == mpc = "select" /\ mpc' = "emit"

C5_EmitStep == mpc = "emit" /\ mpc' # "emit"

C5_StoreStep == mpc = "store" /\ mpc' # "store"

HeardTypes == [k \in 1..Len(heard) |-> heard[k].Type]

IsPrefix(p, q) == Len(p) <= Len(q) /\ \A k \in 1..Len(p) : p[k] = q[k]

\* Every supervision has ended, the hall is drained, the owner is idle and
\* the monitor waits for a tick that would find the counter below the cap.
Quiescent ==
    /\ \A i \in Tasks : spc[i] = "end"
    /\ hall = <<>>
    /\ lpc = "select"
    /\ mpc = "select"
    /\ errCount < toleranceCap

Emitted ==
    Len(barks) + Cardinality({i \in Tasks : hist[i].cry = 1})
               + Cardinality({i \in Tasks : hist[i].growl = 1})

\* The hall is full and the watchdog is open: only the timeout can end an
\* emitNoise.
HallBlocked == Len(hall) >= hallSize /\ ~closed

\* A goroutine returns from emitNoise in this step.
EmitReturns ==
    \/ mpc = "emit" /\ mpc' # "emit"
    \/ \E i \in Tasks : spc[i] = "emit" /\ spc'[i] # "emit"
    \/ \E i \in Tasks : tpc[i] = "recover" /\ tpc'[i] # "recover"

\* C7: with the hall full and the owner not draining it, an emitNoise that
\* returns has dropped its noise (the hall and the owner's history are
\* unchanged), and every goroutine that entered emitNoise leaves it, the
\* supervision goroutines, the task wrappers and the tolerance monitor
\* alike, whether or not the listener ever runs.
C7_EmitDropsAndReturns ==
    /\ [][(HallBlocked /\ EmitReturns) => (hall' = hall /\ heard' = heard)]_vars
    /\ \A i \in 1..LiveTasks : (spc[i] = "emit") ~> (spc[i] # "emit")
    /\ \A i \in 1..LiveTasks : (tpc[i] = "recover") ~> (tpc[i] # "recover")
    /\ (mpc = "emit") ~> (mpc # "emit")

\* The owner has heard nothing, the hall is full, the watchdog is open and
\* a noise given to emitNoise is in neither: it was dropped on the timeout.
C7_Witness ==
    /\ ~closed
    /\ heard = <<>>
    /\ Len(hall) = hallSize
    /\ Emitted > Len(hall)
    /\ \E i \in Tasks : spc[i] = "end" /\ hist[i].growl = 1

\* C8 as claimed: once Close was called no noise enters the hall and
\* owner.Hear is not called.
C8_NothingAfterClose ==
    [][closed => (hall' = hall /\ heard' = heard)]_vars

\* C9 as claimed: no call of Close panics.
C9_CloseNeverPanics == closeFaults = FALSE

\* C10: after Watch and Close both loops end, the monitor having stopped
\* its ticker, whatever is queued in the hall and whatever the producers do.
C10_LoopsTerminate ==
    /\ [](mpc = "done" => tickerStopped)
    /\ (watched /\ closed) ~> (mpc = "done" /\ lpc = "done")

\* Both loops have ended, the ticker is stopped, a noise is still queued in
\* the hall and a supervision goroutine is inside emitNoise.
C10_Witness ==
    /\ mpc = "done"
    /\ lpc = "done"
    /\ tickerStopped
    /\ hall # <<>>
    /\ \E i \in Tasks : spc[i] = "emit"

\* C11: the owner hears the noises in the order in which they entered the
\* hall: every step either leaves the hall and the owner's history alone, or
\* puts one noise at the tail of the hall, or hands the noise at the head of
\* the hall to the owner, so that the history followed by the hall is the
\* sequence of the noises in the order of their enqueueing.
C11_HeardInEnqueueOrder ==
    [][\/ heard' = heard /\ hall' = hall
       \/ /\ heard' = heard
          /\ Len(hall') = Len(hall) + 1
          /\ SubSeq(hall', 1, Len(hall)) = hall
       \/ /\ hall # <<>>
          /\ heard' = Append(heard, Head(hall))
          /\ hall' = Tail(hall)]_vars

\* The owner has heard a noise while two noises of different kinds wait in
\* the hall.
C11_Witness ==
    /\ heard # <<>>
    /\ Len(hall) = 2
    /\ hall[1].Type # hall[2].Type

\* C12: calls of owner.Hear are serialized and all made by listenToHall: the
\* owner's history grows only in a step of the listener that receives the
\* head of the hall and enters Hear, with no call of Hear in progress, and
\* that step is not a step of a task wrapper, of a supervision goroutine or
\* of the tolerance monitor; a call in progress ends before the next begins.
C12_HearSerialized ==
    [][/\ heard' # heard
            => (/\ lpc = "select"
                /\ lpc' = "hear"
                /\ hall # <<>>
                /\ heard' = Append(heard, Head(hall))
                /\ mpc' = mpc
                /\ tpc' = tpc
                /\ spc' = spc)
       /\ lpc = "hear" => (heard' = heard /\ lpc' \in {"hear", "select"})]_vars

\* A call of Hear is in progress while a noise waits in the hall and the
\* tolerance monitor is inside emitNoise.
C12_Witness ==
    /\ lpc = "hear"
    /\ hall # <<>>
    /\ mpc = "emit"

\* The caller may call Go for invocation i: Watch was called, and the calls
\* before this one have been made.
GoCallable(i) ==
    /\ watched
    /\ tpc[i] = "idle"
    /\ \A j \in Tasks : j < i => tpc[j] # "idle"

\* C13: Go does not wait for anything: whenever the caller may call Go, the
\* call can take place and return at once, whether the tasks of the earlier
\* invocations have returned or not, whether the context is cancelled or
\* not and whether the hall is full or not.
C13_GoNeverBlocks ==
    \A i \in Tasks : GoCallable(i) => ENABLED Go(i)

\* Go has returned for a second invocation although the task of the first
\* is still running, the context is cancelled and the hall is full.
C13_Witness ==
    /\ Len(hall) = hallSize
    /\ cancelled
    /\ tpc[1] = "running"
    /\ tpc[2] = "running"
    /\ spc[2] = "start"

\* C14: as long as the context is not cancelled, no supervision goroutine
\* starts its teardown timer, increments the counter or emits a Growl,
\* however long the tasks run: the counter is 0 and no Bark is emitted.
C14_NoGrowlWithoutCancel ==
    ~cancelled =>
        /\ errCount = 0
        /\ barks = <<>>
        /\ Count(hall, IsGrowl) + Count(heard, IsGrowl) = 0
        /\ \A i \in Tasks :
              /\ hist[i].growl = 0
              /\ hist[i].incs = 0
              /\ ~hist[i].timer
              /\ spc[i] \in {"idle", "start", "outer", "end"}

\* The context is not cancelled and a task is still running, its
\* supervision blocked in the outer select, while the other invocation has
\* panicked and the owner has heard its Cry.
C14_Witness ==
    /\ ~cancelled
    /\ \E i, j \in Tasks :
          /\ tpc[i] = "running"
          /\ spc[i] = "outer"
          /\ tpc[j] = "panicked"
    /\ heard # <<>>

\* The task of invocation i returned after the cancellation and before its
\* teardown timer fired.
ReturnedInGrace(i) ==
    tpc[i] = "returned" /\ ~hist[i].early /\ ~hist[i].timer

\* C15: an invocation whose task was running when the context was cancelled
\* and returned before the teardown timer fired is silent, and its timer can
\* no longer fire; when every invocation is such a one, the counter is 0
\* and nothing was emitted.
C15_ReturnInGraceIsSilent ==
    /\ \A i \in Tasks :
          ReturnedInGrace(i)
              => (Silent(i) /\ spc[i] \in {"start", "inner", "end"})
    /\ (\A i \in Tasks : ReturnedInGrace(i))
          => (errCount = 0 /\ barks = <<>> /\ hall = <<>> /\ heard = <<>>)

\* Every task returned after the cancellation, within its grace period, and
\* every supervision has ended.
C15_Witness ==
    /\ cancelled
    /\ \A i \in Tasks : ReturnedInGrace(i) /\ spc[i] = "end"
    /\ errCount = 0
    /\ heard = <<>>

\* If the context is cancelled, then every task had panicked, and its
\* wrapper had emitted the Cry and closed done, before the cancellation.
PanickedBeforeCancel ==
    cancelled => \A i \in Tasks : tpc[i] = "panicked" /\ hist[i].early

C17_PanicOnlyCries ==
    [][\A i \in Tasks :
          (tpc[i] \in {"recover", "panicked"} /\ ~hist[i].timer)
              => (~hist'[i].timer /\ hist'[i].growl = 0)]_vars

\* C18 as claimed: a Bark is emitted only for a count above the cap: the
\* monitor handles as a breach only a snapshot greater than toleranceCap,
\* and every Bark emitted carries such a count.
C18_BarkOnlyAboveCap ==
    /\ mpc \in {"emit", "store"} => snapshot > toleranceCap
    /\ \A k \in 1..Len(barks) : barks[k].ErrCount > toleranceCap

\* C19 as claimed: the errors that make a tick emit a Bark all occurred in
\* the window that the tick ends: the count the tick finds, less the count
\* the window began with (errors of earlier windows that stayed below the
\* cap), reaches the cap.
C19_BarkFromOneWindow ==
    [][(mpc = "select" /\ mpc' = "emit")
          => errCount >= snapshot + toleranceCap]_vars

InRange(field, v) ==
    CASE field = "hallSize" -> v >= MinHallSize /\ v <= MaxHallSize
      [] field = "hallTimeout" -> v >= MinHallTimeout /\ v <= MaxHallTimeout
      [] field = "toleranceWindow" ->
             v >= MinToleranceWindow /\ v <= MaxToleranceWindow
      [] field = "teardownTimeout" ->
             v >= MinTeardownTimeout /\ v <= MaxTeardownTimeout
      [] field = "toleranceCap" ->
             v >= MinToleranceCap /\ v <= MaxToleranceCap

\* The value last given for the field among the arguments, else the default.
LastGiven(field) ==
    LET ks == {k \in 1..Len(cfg.args) : cfg.args[k][1] = field}
    IN  IF ks = {} THEN Defaults(cfg.owner)[field]
        ELSE cfg.args[CHOOSE k \in ks : \A j \in ks : j <= k][2]

\* C21: an option constructor given a value outside its range panics, and
\* nothing is built from that call; an Option that was returned stores
\* exactly the value given, which lies in the range (no clamping);
\* NewConfiguration panics for a nil owner; and a Configuration that was
\* built holds, for each field, the value last given for it, else its
\* default.
C21_OptionsFailFast ==
    /\ \A k \in 1..Len(cfg.args) :
          IF InRange(cfg.args[k][1], cfg.args[k][2])
          THEN /\ k <= Len(cfg.opts)
               /\ cfg.opts[k] = Option(FALSE, cfg.args[k][1], cfg.args[k][2])
          ELSE /\ k = Len(cfg.args)
               /\ Len(cfg.opts) = k - 1
               /\ cfg.pc = "panicked"
    /\ Len(cfg.opts) <= Len(cfg.args)
    /\ cfg.owner = Nil => cfg.pc = "panicked"
    /\ cfg.pc # "built" => cfg.c = NoConfiguration
    /\ cfg.pc = "built" =>
          /\ cfg.owner # Nil
          /\ cfg.c.owner = cfg.owner
          /\ \A field \in Fields : cfg.c[field] = LastGiven(field)

\* A Configuration was built from the largest hall size and the smallest
\* tolerance cap; its other fields have their defaults.
C21_Witness ==
    /\ cfg.pc = "built"
    /\ cfg.c.hallSize = MaxHallSize
    /\ cfg.c.toleranceCap = MinToleranceCap
    /\ cfg.c.hallTimeout = DefaultHallTimeout
    /\ cfg.c.teardownTimeout = DefaultTeardownTimeout
    /\ cfg.c.toleranceWindow = DefaultToleranceWindow

WellFormed(n) ==
    CASE n.Type = Cry ->
             n.Error = ErrTaskPanicked /\ n.Payload # Nil /\ n.ErrCount = 0
      [] n.Type = Growl ->
             /\ n.Error = ErrTaskNotContextCompliant
             /\ n.Payload = Nil
             /\ n.ErrCount = 0
      [] n.Type = Bark ->
             /\ n.Error = ErrToleranceExceeded
             /\ n.Payload = Nil
             /\ n.ErrCount >= toleranceCap
      [] OTHER -> FALSE

\* C23: every noise in the hall and every noise the owner has heard is
\* well-formed for its kind, and a noise is not modified between its
\* enqueueing and its delivery: the noises already in the hall stay as they
\* are while they wait, and the owner is handed the very noise that leaves
\* the hall.
C23_NoisesWellFormed ==
    /\ [](\A k \in 1..Len(hall) : WellFormed(hall[k]))
    /\ [](\A k \in 1..Len(heard) : WellFormed(heard[k]))
    /\ [][\/ /\ Len(hall') >= Len(hall)
             /\ SubSeq(hall', 1, Len(hall)) = hall
             /\ heard' = heard
          \/ /\ hall # <<>>
             /\ hall' = Tail(hall)
             /\ Len(heard') = Len(heard) + 1
             /\ heard'[Len(heard')] = Head(hall)
             /\ SubSeq(heard', 1, Len(heard)) = heard]_vars

\* The owner has heard a noise of each kind.
C23_Witness ==
    /\ \E k \in 1..Len(heard) : IsCry(heard[k])
    /\ \E k \in 1..Len(heard) : IsGrowl(heard[k])
    /\ \E k \in 1..Len(heard) : IsBark(heard[k])

\* C24: the error counter is never negative and changes in two ways only.
\* A supervision goroutine whose teardown timer has fired adds exactly 1 to
\* it, and the monitor sets it to 0 in the step that follows its emitting a
\* Bark with the snapshot it took.  No other step changes the counter, so
\* that it decreases only at the reset after a Bark.
C24_CounterChanges ==
    /\ [](errCount >= 0)
    /\ [][errCount' # errCount =>
            \/ /\ errCount' = errCount + 1
               /\ \E i \in Tasks :
                     /\ spc[i] = "incr"
                     /\ spc'[i] = "emit"
                     /\ hist[i].timer
                     /\ tpc'[i] = tpc[i]
               /\ mpc' = mpc
            \/ /\ errCount' = 0
               /\ mpc = "store"
               /\ mpc' = "select"
               /\ barks # <<>>
               /\ barks[Len(barks)] = BarkNoise(snapshot)
               /\ spc' = spc]_vars

\* The monitor has fired a Bark and reset the counter, and a supervision
\* goroutine has incremented the counter again since.
C24_Witness ==
    /\ barks # <<>>
    /\ mpc = "select"
    /\ errCount = 1
    /\ \A i \in Tasks : hist[i].incs = 1

\* C25: the hall never holds more noises than its capacity, and the capacity
\* is the hallSize of the Configuration the watchdog was built from, a value
\* of the validated range, at every moment.
C25_HallBounded ==
    /\ cfg.pc = "built"
    /\ hallSize = cfg.c.hallSize
    /\ hallSize >= MinHallSize
    /\ hallSize <= MaxHallSize
    /\ Len(hall) <= hallSize

\* The hall is full while a supervision goroutine, the wrapper of a
\* panicked task and the monitor are all inside emitNoise.
C25_Witness ==
    /\ Len(hall) = hallSize
    /\ ~closed
    /\ mpc = "emit"
    /\ \E i \in Tasks : spc[i] = "emit"
    /\ \E i \in Tasks : tpc[i] = "recover"

\* C26: the recovery of a panic does not depend on what the supervision
\* goroutine has done.  A task can panic for as long as it runs, flagged
\* with a Growl or not; the wrapper of a task that panicked can always go
\* on to emitNoise; and it calls emitNoise with the Cry of the recovered
\* value exactly once, the Cry entering the hall unless the watchdog is
\* closed or the hall is full, and leaves the Growl of the invocation and
\* the error counter as they were.
C26_PanicPathIndependent ==
    /\ [](\A i \in Tasks :
            /\ tpc[i] = "running" =>
                  \A v \in PanicValues : ENABLED TaskPanic(i, v)
            /\ tpc[i] = "recover" => ENABLED RecoverEmit(i)
            /\ tpc[i] = "panicked" => hist[i].cry = 1)
    /\ [][\A i \in Tasks :
            (tpc[i] = "recover" /\ tpc'[i] # "recover") =>
                /\ tpc'[i] = "panicked"
                /\ hist'[i].cry = hist[i].cry + 1
                /\ hist'[i].growl = hist[i].growl
                /\ errCount' = errCount
                /\ \/ hall' = Append(hall, CryNoise(tval[i]))
                   \/ hall' = hall /\ (closed \/ Len(hall) >= hallSize)]_vars

\* An invocation was flagged with a Growl, its task panicked afterwards, and
\* the owner has heard the Growl and then the Cry of that panic.
C26_Witness ==
    \E i \in Tasks :
        /\ hist[i].growl = 1
        /\ hist[i].cry = 1
        /\ tpc[i] = "panicked"
        /\ \E j, k \in 1..Len(heard) :
              /\ j < k
              /\ heard[j] = GrowlNoise
              /\ heard[k] = CryNoise(tval[i])

\* C27: once the task of an invocation is over or the context is cancelled,
\* the supervision goroutine of the invocation ends, whether the task ever
\* returns or not and whatever the hall, the loops and the owner do.
C27_SupervisionEnds ==
    \A i \in 1..LiveTasks :
        (spc[i] # "idle" /\ (DoneClosed(i) \/ CtxDone(i))) ~> spc[i] = "end"

\* The supervision goroutine has ended after its Growl was dropped at a
\* full hall, while the task is still running.
C27_Witness ==
    \E i \in Tasks :
        /\ spc[i] = "end"
        /\ tpc[i] = "running"
        /\ hist[i].growl = 1
        /\ ~closed
        /\ Len(hall) = hallSize
        /\ \A k \in 1..Len(hall) : ~IsGrowl(hall[k])
        /\ \A k \in 1..Len(heard) : ~IsGrowl(heard[k])

\* The number of increments of the counter made by the invocations 1..n.
RECURSIVE Increments(_)
Increments(n) == IF n = 0 THEN 0 ELSE hist[n].incs + Increments(n - 1)

\* The sum of the ErrCount of the first n Barks the monitor has fired.
RECURSIVE Reported(_)
Reported(n) == IF n = 0 THEN 0 ELSE barks[n].ErrCount + Reported(n - 1)

\* C28 as claimed: whenever the monitor is not between its load of the
\* counter and its store of 0, the increments made by the supervision
\* goroutines are all accounted for: their number is the sum of the ErrCount
\* of the Barks fired so far plus the current value of the counter.
C28_NoErrorLost ==
    mpc \notin {"emit", "store"} =>
        Increments(Len(hist)) = Reported(Len(barks)) + errCount

\* The noises that were handed to emitNoise so far.
Given ==
    {barks[k] : k \in 1..Len(barks)}
        \cup {CryNoise(tval[i]) : i \in {j \in Tasks : hist[j].cry = 1}}
        \cup {GrowlNoise : i \in {j \in Tasks : hist[j].growl = 1}}

\* C29: the owner hears only noises that were handed to emitNoise, and of
\* each kind the noises heard together with those still in the hall are no
\* more than the calls of emitNoise made for that kind: no noise is made
\* up, none is heard twice, and the noises heard are no more than the
\* noises enqueued.
C29_NothingFabricated ==
    /\ \A k \in 1..Len(heard) : heard[k] \in Given
    /\ \A k \in 1..Len(hall) : hall[k] \in Given
    /\ Count(heard, IsCry) + Count(hall, IsCry)
          <= Cardinality({i \in Tasks : hist[i].cry = 1})
    /\ Count(heard, IsGrowl) + Count(hall, IsGrowl)
          <= Cardinality({i \in Tasks : hist[i].growl = 1})
    /\ Count(heard, IsBark) + Count(hall, IsBark) <= Len(barks)
    /\ Len(heard) + Len(hall) <= Emitted

\* Three noises were handed to emitNoise and the owner has heard each of
\* them once; the hall is empty.
C29_Witness ==
    /\ Emitted = 3
    /\ Len(heard) = 3
    /\ hall = <<>>
    /\ lpc = "select"

====
